---- MODULE Spec2Model ----
(***************************************************************************)
(* Model of src/src/main.rs: the CLOCK (second-chance) store ClockMap and  *)
(* the sharded, mutex-guarded ClockDashMap built from it.                  *)
(*                                                                         *)
(* Indices are 0-based as in the source: clock_list is a function over     *)
(* 0..capacity-1.  A Rust panic (index out of bounds, unwrap of None) is   *)
(* an outcome of an operation, recorded in `status` and in `last.ret`.     *)
(***************************************************************************)
EXTENDS Integers, Sequences, FiniteSets

VARIABLES
    clockmap,   \* the ClockMap under test (value_map, clock_list, pointer, miss, capacity)
    status,     \* "ok", or "panicked" once a call on clockmap has panicked
    last,       \* the last call on clockmap: op, key, value, ret, the store before it
                \* and the slot positions its sweep examined
    cold_puts,  \* number of insert calls made with a key absent from value_map
    script,     \* the keys the test still has to insert (tests::test_1, tests::test_2)
    scenario,   \* which test is running: "none", "test_1" or "test_2"
    dash,       \* the ClockDashMap's data: num_shards, shards, key_shard, next_modify
    mutex,      \* holder and poison flag of each Mutex: key_shard, next_modify, shards[i]
    thread      \* per caller: position in ClockDashMap::insert / read, arguments, result

clockVars == <<clockmap, status, last, cold_puts, script, scenario>>

dashVars == <<dash, mutex, thread>>

vars == <<clockmap, status, last, cold_puts, script, scenario, dash, mutex, thread>>

---------------------------------------------------------------------------
(* Bounds of the model *)

MaxCap == 2
MaxColdPuts == 4
NumThreads == 2
MaxShards == 2
MaxTotalCap == 2

Caps == 0..MaxCap
\* one key more than the largest store holds, so that evictions happen
Keys == 0..MaxCap
\* values are opaque data and never steer control flow: two distinct ones
\* tell an overwrite from a stale value
Vals == {1, 2}

---------------------------------------------------------------------------
(* Data: Option<Entry<K>>, MapEntry<V>, HashMap *)

None == [some |-> FALSE]

Entry(sc, k) == [some |-> TRUE, second_chance |-> sc, key |-> k]

MapEntry(v, i) == [value |-> v, index |-> i]

EmptyMap == [k \in {} |-> MapEntry(0, 0)]

HashMap_insert(f, k, e) == [x \in (DOMAIN f) \cup {k} |-> IF x = k THEN e ELSE f[x]]

(* a remove that leaves the evicted key's record in the map *)
HashMap_remove_Nothing(f, k) == f

HashMap_remove(f, k) == [x \in (DOMAIN f) \ {k} |-> f[x]]

(* Results of a call *)
RetUnit == [kind |-> "unit"]
RetNone == [kind |-> "none"]
RetSome(v) == [kind |-> "some", value |-> v]
RetPanic == [kind |-> "panic"]

---------------------------------------------------------------------------
(* ClockMap *)

ClockMap_new(cap) ==
    [value_map |-> EmptyMap,
     clock_list |-> [i \in 0..(cap - 1) |-> None],
     pointer |-> 0,
     miss |-> 0,
     capacity |-> cap]

(* ClockMap::read, lines 89-104.  clock_list[idx] panics when idx is out of *)
(* bounds.                                                                  *)
ClockMap_read(m, key) ==
    IF key \in DOMAIN m.value_map
    THEN LET idx == m.value_map[key].index IN
         IF idx \notin DOMAIN m.clock_list
         THEN [map |-> m, ret |-> RetPanic]
         ELSE IF m.clock_list[idx].some /\ m.clock_list[idx].key = key
              THEN [map |-> [m EXCEPT !.clock_list[idx].second_chance = TRUE],
                    ret |-> RetSome(m.value_map[key].value)]
              ELSE [map |-> m, ret |-> RetNone]
    ELSE [map |-> m, ret |-> RetNone]

(* InsertExisting with line 112 left out: a hit that does not mark the slot. *)
InsertExisting_NoSecondChance(m, key, value) ==
    LET idx == m.value_map[key].index IN
    IF idx \notin DOMAIN m.clock_list \/ ~m.clock_list[idx].some
    THEN [map |-> m, ret |-> RetPanic]
    ELSE IF m.clock_list[idx].key = key
         THEN [map |-> [m EXCEPT !.value_map = HashMap_insert(@, key, MapEntry(value, idx))],
               ret |-> RetUnit]
         ELSE [map |-> m, ret |-> RetUnit]

(* ClockMap::insert, the branch for a key already in value_map, lines 106-126. *)
(* clock_list[idx] panics when idx is out of bounds, unwrap() when it is None. *)
InsertExisting(m, key, value) ==
    LET idx == m.value_map[key].index IN
    IF idx \notin DOMAIN m.clock_list \/ ~m.clock_list[idx].some
    THEN [map |-> m, ret |-> RetPanic]
    ELSE IF m.clock_list[idx].key = key
         THEN [map |-> [m EXCEPT !.clock_list[idx].second_chance = TRUE,
                                 !.value_map = HashMap_insert(@, key, MapEntry(value, idx))],
               ret |-> RetUnit]
         ELSE [map |-> m, ret |-> RetUnit]

(* self.pointer = i + 1: line 160 without the wrap-around *)
NextPointer_NoWrap(i, capacity) == i + 1

(* self.pointer = i % self.capacity: the pointer left on the slot just used *)
NextPointer_Stay(i, capacity) == i % capacity

(* self.pointer = (i + 1) % self.capacity, line 160 *)
NextPointer(i, capacity) == (i + 1) % capacity

(* The loop of ClockMap::insert without lines 143-146: an occupied slot is  *)
(* evicted whatever its second_chance flag.                                 *)
Sweep_NoSecondChance(m, key, value, i, end) ==
    IF i >= end
    THEN [map |-> m, ret |-> RetUnit, visited |-> <<>>]
    ELSE LET pos == i % m.capacity
             slot == m.clock_list[pos]
         IN  IF ~slot.some
             THEN IF i \notin DOMAIN m.clock_list
                  THEN [map |-> m, ret |-> RetPanic, visited |-> <<pos>>]
                  ELSE [map |-> [m EXCEPT !.clock_list[i] = Entry(FALSE, key),
                                          !.value_map = HashMap_insert(@, key, MapEntry(value, i)),
                                          !.pointer = NextPointer(i, m.capacity),
                                          !.miss = @ + 1],
                        ret |-> RetUnit, visited |-> <<pos>>]
             ELSE [map |-> [m EXCEPT !.value_map =
                                         HashMap_insert(HashMap_remove(@, slot.key),
                                                        key, MapEntry(value, i)),
                                     !.clock_list[pos] = Entry(FALSE, key),
                                     !.pointer = NextPointer(i, m.capacity),
                                     !.miss = @ + 1],
                   ret |-> RetUnit, visited |-> <<pos>>]

(* ClockMap::insert, the loop `for i in pointer..pointer + capacity`, lines *)
(* 128-168, from iteration i to the end of the range.  The range is fixed   *)
(* when the loop starts; the slot examined is i % capacity, the empty-slot  *)
(* branch writes clock_list[i] and both branches record `index: i`.         *)
(* visited lists the positions i % capacity the loop examined, in order.    *)
RECURSIVE Sweep(_, _, _, _, _)
Sweep(m, key, value, i, end) ==
    IF i >= end
    THEN [map |-> m, ret |-> RetUnit, visited |-> <<>>]
    ELSE LET pos == i % m.capacity
             slot == m.clock_list[pos]
         IN  IF ~slot.some
             THEN IF i \notin DOMAIN m.clock_list
                  THEN [map |-> m, ret |-> RetPanic, visited |-> <<pos>>]
                  ELSE [map |-> [m EXCEPT !.clock_list[i] = Entry(FALSE, key),
                                          !.value_map = HashMap_insert(@, key, MapEntry(value, i)),
                                          !.pointer = NextPointer(i, m.capacity),
                                          !.miss = @ + 1],
                        ret |-> RetUnit, visited |-> <<pos>>]
             ELSE IF slot.second_chance
                  THEN LET r == Sweep([m EXCEPT !.clock_list[pos].second_chance = FALSE],
                                      key, value, i + 1, end)
                       IN  [r EXCEPT !.visited = <<pos>> \o @]
                  ELSE [map |-> [m EXCEPT !.value_map =
                                              HashMap_insert(HashMap_remove(@, slot.key),
                                                             key, MapEntry(value, i)),
                                          !.clock_list[pos] = Entry(FALSE, key),
                                          !.pointer = NextPointer(i, m.capacity),
                                          !.miss = @ + 1],
                        ret |-> RetUnit, visited |-> <<pos>>]

(* ClockMap::insert with the range `pointer..=pointer + capacity`: one step *)
(* more than a lap.                                                         *)
ClockMap_insert_ExtraStep(m, key, value) ==
    IF key \in DOMAIN m.value_map
    THEN InsertExisting(m, key, value)
    ELSE IF m.capacity = 0
         THEN [map |-> m, ret |-> RetPanic]
         ELSE Sweep(m, key, value, m.pointer, m.pointer + m.capacity + 1)

(* ClockMap::insert with `self.miss += 1` also on the hit path. *)
ClockMap_insert_MissOnHit(m, key, value) ==
    IF key \in DOMAIN m.value_map
    THEN LET r == InsertExisting(m, key, value) IN
         [map |-> [r.map EXCEPT !.miss = @ + 1], ret |-> r.ret]
    ELSE Sweep(m, key, value, m.pointer, m.pointer + m.capacity)

(* ClockMap::insert with the slot at pointer % capacity examined before the *)
(* range is tested: with capacity 0 the remainder panics.                   *)
ClockMap_insert_RemainderFirst(m, key, value) ==
    IF key \in DOMAIN m.value_map
    THEN InsertExisting(m, key, value)
    ELSE IF m.capacity = 0
         THEN [map |-> m, ret |-> RetPanic]
         ELSE Sweep(m, key, value, m.pointer, m.pointer + m.capacity)

(* ClockMap::insert, lines 105-170 *)
ClockMap_insert(m, key, value) ==
    IF key \in DOMAIN m.value_map
    THEN InsertExisting(m, key, value)
    ELSE Sweep(m, key, value, m.pointer, m.pointer + m.capacity)

---------------------------------------------------------------------------
(* ClockDashMap: data, mutexes and callers *)

Threads == 1..NumThreads

NoThread == 0

(* std::sync::Mutex: who holds it, and whether a holder panicked *)
Mutex_new == [holder |-> NoThread, poisoned |-> FALSE]

(* a MutexGuard dropped on return *)
Mutex_unlock(l, t) == IF l.holder = t THEN [l EXCEPT !.holder = NoThread] ELSE l

(* a MutexGuard dropped while its thread unwinds from a panic *)
Mutex_unlock_panicking(l, t) ==
    IF l.holder = t THEN [holder |-> NoThread, poisoned |-> TRUE] ELSE l

(* ClockDashMap::new without lines 40-42: the remainder is given to no shard *)
ClockDashMap_new_NoRemainder(cap, n) ==
    [num_shards |-> n,
     shards |-> [i \in 0..(n - 1) |-> ClockMap_new((cap - (cap % n)) \div n)],
     key_shard |-> [k \in {} |-> 0],
     next_modify |-> 0,
     cap |-> cap]

(* ClockDashMap::new, lines 35-51; num_shards is num_cpus::get().  The field *)
(* cap is not in the struct: it keeps the argument for the properties.       *)
ClockDashMap_new(cap, n) ==
    [num_shards |-> n,
     shards |-> [i \in 0..(n - 1) |->
                    ClockMap_new(((cap - (cap % n)) \div n)
                                 + (IF i = n - 1 THEN (cap % n) ELSE 0))],
     key_shard |-> [k \in {} |-> 0],
     next_modify |-> 0,
     cap |-> cap]

Mutexes_new(n) ==
    [key_shard |-> Mutex_new,
     next_modify |-> Mutex_new,
     shards |-> [i \in 0..(n - 1) |-> Mutex_new]]

IdleThread == [pc |-> "idle", op |-> "none", key |-> 0, value |-> 0, ret |-> RetUnit]

(* every guard of thread t dropped on return *)
ReleaseAll(mx, t) ==
    [key_shard |-> Mutex_unlock(mx.key_shard, t),
     next_modify |-> Mutex_unlock(mx.next_modify, t),
     shards |-> [i \in DOMAIN mx.shards |-> Mutex_unlock(mx.shards[i], t)]]

(* every guard of thread t dropped by unwinding *)
Unwind(mx, t) ==
    [key_shard |-> Mutex_unlock_panicking(mx.key_shard, t),
     next_modify |-> Mutex_unlock_panicking(mx.next_modify, t),
     shards |-> [i \in DOMAIN mx.shards |-> Mutex_unlock_panicking(mx.shards[i], t)]]

(* the ClockDashMap part of the state in the specifications of one ClockMap *)
DashUnused ==
    /\ dash = ClockDashMap_new(0, 1)
    /\ mutex = Mutexes_new(1)
    /\ thread = [t \in Threads |-> IdleThread]

---------------------------------------------------------------------------
(* Calls on one ClockMap *)

Call(op, key, value, r) ==
    /\ clockmap' = r.map
    /\ status' = IF r.ret = RetPanic THEN "panicked" ELSE "ok"
    /\ last' = [op |-> op, key |-> key, value |-> value, ret |-> r.ret, pre |-> clockmap,
                visited |-> IF "visited" \in DOMAIN r THEN r.visited ELSE <<>>]

Insert(key, value) ==
    /\ status = "ok"
    /\ key \notin DOMAIN clockmap.value_map => cold_puts < MaxColdPuts
    /\ Call("insert", key, value, ClockMap_insert(clockmap, key, value))
    /\ cold_puts' = IF key \in DOMAIN clockmap.value_map THEN cold_puts ELSE cold_puts + 1
    /\ UNCHANGED <<script, scenario>>
    /\ UNCHANGED dashVars

Read(key) ==
    /\ status = "ok"
    /\ Call("read", key, 0, ClockMap_read(clockmap, key))
    /\ UNCHANGED <<cold_puts, script, scenario>>
    /\ UNCHANGED dashVars

NewCall(m) ==
    [op |-> "new", key |-> 0, value |-> 0, ret |-> RetUnit, pre |-> m, visited |-> <<>>]

Init ==
    /\ \E cap \in Caps : clockmap = ClockMap_new(cap)
    /\ status = "ok"
    /\ last = NewCall(clockmap)
    /\ cold_puts = 0
    /\ script = <<>>
    /\ scenario = "none"
    /\ DashUnused

Next ==
    \/ \E key \in Keys, value \in Vals : Insert(key, value)
    \/ \E key \in Keys : Read(key)

Spec == Init /\ [][Next]_vars

---------------------------------------------------------------------------
(* tests::test_1 and tests::test_2: a fixed key sequence inserted into a   *)
(* fresh ClockMap, each value equal to its key.  TraceSpec runs both       *)
(* sequences against every capacity up to the larger of the two tests'.    *)

Test1Cap == 3
Test1Miss == 9
Test2Cap == 4
Test2Miss == 11

input_keys1 == <<0, 4, 1, 4, 2, 4, 3, 4, 2, 4, 0, 4, 1, 4, 2, 4, 3, 4>>

input_keys2 == <<2, 5, 10, 1, 2, 2, 6, 9, 1, 2, 10, 2, 6, 1, 2, 1, 6, 9, 5, 1>>

TraceInit ==
    /\ \E cap \in 0..Test2Cap : clockmap = ClockMap_new(cap)
    /\ status = "ok"
    /\ last = NewCall(clockmap)
    /\ cold_puts = 0
    /\ \/ scenario = "test_1" /\ script = input_keys1
       \/ scenario = "test_2" /\ script = input_keys2
    /\ DashUnused

TraceStep ==
    /\ status = "ok"
    /\ script # <<>>
    /\ Call("insert", Head(script), Head(script),
            ClockMap_insert(clockmap, Head(script), Head(script)))
    /\ cold_puts' = IF Head(script) \in DOMAIN clockmap.value_map
                    THEN cold_puts ELSE cold_puts + 1
    /\ script' = Tail(script)
    /\ UNCHANGED scenario
    /\ UNCHANGED dashVars

TraceSpec == TraceInit /\ [][TraceStep]_vars

---------------------------------------------------------------------------
(* Calls on a ClockDashMap.  A call is a sequence of steps, one per lock()  *)
(* it makes.  lock().unwrap() waits while another thread holds the mutex,   *)
(* panics when the mutex is poisoned, and never returns when the calling    *)
(* thread already holds the mutex: std leaves open whether that call blocks *)
(* forever or panics, so both outcomes are steps of the model.              *)

Goto(t, pc) == thread' = [thread EXCEPT ![t].pc = pc]

Return(t, ret) ==
    /\ thread' = [thread EXCEPT ![t].pc = "idle", ![t].ret = ret]
    /\ mutex' = ReleaseAll(mutex, t)

Panic(t) ==
    /\ thread' = [thread EXCEPT ![t].pc = "panicked", ![t].ret = RetPanic]
    /\ mutex' = Unwind(mutex, t)

DashBegin(t) ==
    /\ thread[t].pc = "idle"
    /\ \/ \E key \in Keys, value \in Vals :
              thread' = [thread EXCEPT ![t] = [pc |-> "insert_53", op |-> "insert",
                                               key |-> key, value |-> value, ret |-> RetUnit]]
       \/ \E key \in Keys :
              thread' = [thread EXCEPT ![t] = [pc |-> "read_69", op |-> "read",
                                               key |-> key, value |-> 0, ret |-> RetUnit]]
    /\ UNCHANGED <<dash, mutex>>
    /\ UNCHANGED clockVars

(* self.key_shard.lock().unwrap(), line 53 (insert) and line 69 (read) *)
LockKeyShard(t, at, then) ==
    /\ thread[t].pc = at
    /\ mutex.key_shard.holder = NoThread
    /\ IF mutex.key_shard.poisoned
       THEN Panic(t)
       ELSE /\ mutex' = [mutex EXCEPT !.key_shard.holder = t]
            /\ Goto(t, then)
    /\ UNCHANGED dash
    /\ UNCHANGED clockVars

Insert_L53(t) == LockKeyShard(t, "insert_53", "insert_54")

(* a delegated ClockMap call under the shard's lock, lines 56-57 and 72-73 *)
OnShard(t, shard_idx, r) ==
    /\ mutex.shards[shard_idx].holder = NoThread
    /\ IF mutex.shards[shard_idx].poisoned
       THEN Panic(t) /\ UNCHANGED dash
       ELSE /\ dash' = [dash EXCEPT !.shards[shard_idx] = r.map]
            /\ IF r.ret = RetPanic
               THEN /\ thread' = [thread EXCEPT ![t].pc = "panicked", ![t].ret = RetPanic]
                    /\ mutex' = [Unwind(mutex, t) EXCEPT
                                     !.shards[shard_idx].poisoned = TRUE]
               ELSE Return(t, r.ret)

(* lines 54-58: the key has a shard on record, or line 59 comes next *)
Insert_L54(t) ==
    /\ thread[t].pc = "insert_54"
    /\ IF thread[t].key \in DOMAIN dash.key_shard
       THEN LET shard_idx == dash.key_shard[thread[t].key] IN
            OnShard(t, shard_idx,
                    ClockMap_insert(dash.shards[shard_idx], thread[t].key, thread[t].value))
       ELSE Goto(t, "insert_59") /\ UNCHANGED <<dash, mutex>>
    /\ UNCHANGED clockVars

(* let shard_idx = self.next_modify.lock().unwrap(), line 59 *)
Insert_L59(t) ==
    /\ thread[t].pc = "insert_59"
    /\ mutex.next_modify.holder = NoThread
    /\ IF mutex.next_modify.poisoned
       THEN Panic(t)
       ELSE /\ mutex' = [mutex EXCEPT !.next_modify.holder = t]
            /\ Goto(t, "insert_60")
    /\ UNCHANGED dash
    /\ UNCHANGED clockVars

(* let mut next_modify = self.next_modify.lock().unwrap(), line 60: the     *)
(* thread holds this mutex since line 59 (shard_idx is still alive), so the *)
(* call does not return and lines 61-65 are never run.                      *)
Insert_L60(t) ==
    /\ thread[t].pc = "insert_60"
    /\ mutex.next_modify.holder = t
    /\ \/ Goto(t, "insert_60_blocked") /\ UNCHANGED mutex
       \/ Panic(t)
    /\ UNCHANGED dash
    /\ UNCHANGED clockVars

Read_L69(t) == LockKeyShard(t, "read_69", "read_70")

(* lines 70-75 *)
Read_L70(t) ==
    /\ thread[t].pc = "read_70"
    /\ IF thread[t].key \in DOMAIN dash.key_shard
       THEN LET shard_idx == dash.key_shard[thread[t].key] IN
            OnShard(t, shard_idx, ClockMap_read(dash.shards[shard_idx], thread[t].key))
       ELSE Return(t, RetNone) /\ UNCHANGED dash
    /\ UNCHANGED clockVars

(* a step of a call that is in progress *)
DashStep(t) ==
    \/ Insert_L53(t)
    \/ Insert_L54(t)
    \/ Insert_L59(t)
    \/ Insert_L60(t)
    \/ Read_L69(t)
    \/ Read_L70(t)

DashInit ==
    /\ clockmap = ClockMap_new(0)
    /\ status = "ok"
    /\ last = NewCall(clockmap)
    /\ cold_puts = 0
    /\ script = <<>>
    /\ scenario = "none"
    /\ \E n \in 1..MaxShards, cap \in 0..MaxTotalCap :
           /\ dash = ClockDashMap_new(cap, n)
           /\ mutex = Mutexes_new(n)
    /\ thread = [t \in Threads |-> IdleThread]

DashNext ==
    \E t \in Threads :
        \/ DashBegin(t)
        \/ Insert_L53(t)
        \/ Insert_L54(t)
        \/ Insert_L59(t)
        \/ Insert_L60(t)
        \/ Read_L69(t)
        \/ Read_L70(t)

DashSpec == DashInit /\ [][DashNext]_vars

---------------------------------------------------------------------------
(* Properties of one ClockMap *)

pre == last.pre

ColdInsert == last.op = "insert" /\ last.key \notin DOMAIN pre.value_map

HitInsert == last.op = "insert" /\ last.key \in DOMAIN pre.value_map

SlotsOf(m, k) == {i \in DOMAIN m.clock_list : m.clock_list[i].some /\ m.clock_list[i].key = k}

\* C1: for every key k in value_map (capacity > 0), value_map[k].index is in
\* [0, capacity) and the slot at that position is occupied and holds k.
C1_IndexSlotConsistency ==
    clockmap.capacity > 0 =>
        \A k \in DOMAIN clockmap.value_map :
            LET idx == clockmap.value_map[k].index IN
            /\ idx \in 0..(clockmap.capacity - 1)
            /\ clockmap.clock_list[idx].some
            /\ clockmap.clock_list[idx].key = k

\* C2: with capacity > 0, an insert of a key that is not in value_map ends
\* with the key in value_map with the given value and in exactly one slot.
C2_EveryPutSucceeds ==
    (ColdInsert /\ pre.capacity > 0) =>
        /\ last.ret = RetUnit
        /\ last.key \in DOMAIN clockmap.value_map
        /\ clockmap.value_map[last.key].value = last.value
        /\ Cardinality(SlotsOf(clockmap, last.key)) = 1

\* C3: no read or insert on a ClockMap of any capacity panics.
C3_NoOperationFails == last.ret # RetPanic

\* C4: miss never decreases, a call raises it by at most 1, and it rises only
\* in an insert of a key that was absent from value_map; an insert of a
\* present key and any read leave it unchanged.
C4_BoundedMissGrowth ==
    /\ clockmap.miss >= pre.miss
    /\ clockmap.miss <= pre.miss + 1
    /\ clockmap.miss # pre.miss => ColdInsert
    /\ (HitInsert \/ last.op = "read") => clockmap.miss = pre.miss

C4_Witness ==
    /\ ColdInsert
    /\ clockmap.miss = pre.miss + 1
    /\ pre.miss > 0

\* C5: with capacity > 0, miss equals the number of insert calls made with a
\* key absent from value_map at the time of the call.
C5_MissCountsColdPuts == clockmap.capacity > 0 => clockmap.miss = cold_puts

\* C6: test_1's keys inserted into a ClockMap of capacity 3 end with miss = 9
\* and test_2's keys inserted into one of capacity 4 end with miss = 11.
C6_ReferenceTraces ==
    script = <<>> =>
        /\ (scenario = "test_1" /\ clockmap.capacity = Test1Cap) =>
               (status = "ok" /\ clockmap.miss = Test1Miss)
        /\ (scenario = "test_2" /\ clockmap.capacity = Test2Cap) =>
               (status = "ok" /\ clockmap.miss = Test2Miss)

C6_Witness ==
    /\ script = <<>>
    /\ scenario = "test_2"
    /\ clockmap.capacity = Test2Cap
    /\ last.op = "insert"

\* C7: an insert of a key already in value_map completes, overwrites the key's
\* value, keeps its slot, sets that slot's second_chance, and leaves pointer,
\* miss, the key set and every other key's value, slot and flag unchanged.
C7_ExistingPutPureHit ==
    HitInsert =>
        LET k == last.key
            idx == pre.value_map[k].index
        IN  /\ last.ret = RetUnit
            /\ DOMAIN clockmap.value_map = DOMAIN pre.value_map
            /\ clockmap.value_map[k] = MapEntry(last.value, idx)
            /\ \A j \in DOMAIN pre.value_map \ {k} : clockmap.value_map[j] = pre.value_map[j]
            /\ idx \in DOMAIN clockmap.clock_list
            /\ clockmap.clock_list[idx] = Entry(TRUE, k)
            /\ \A i \in DOMAIN pre.clock_list \ {idx} : clockmap.clock_list[i] = pre.clock_list[i]
            /\ clockmap.pointer = pre.pointer
            /\ clockmap.miss = pre.miss

\* C8: a read leaves value_map, each slot's key, pointer and miss unchanged;
\* for a key in value_map it returns the stored value and sets only the
\* second_chance flag of the key's slot; for an absent key it returns None
\* and changes nothing.
C8_ReadKeepsOccupancy ==
    last.op = "read" =>
        /\ clockmap.value_map = pre.value_map
        /\ clockmap.pointer = pre.pointer
        /\ clockmap.miss = pre.miss
        /\ \A i \in DOMAIN pre.clock_list :
               /\ clockmap.clock_list[i].some = pre.clock_list[i].some
               /\ pre.clock_list[i].some => clockmap.clock_list[i].key = pre.clock_list[i].key
        /\ last.key \notin DOMAIN pre.value_map => (last.ret = RetNone /\ clockmap = pre)
        /\ last.key \in DOMAIN pre.value_map =>
               LET idx == pre.value_map[last.key].index IN
               /\ last.ret = RetSome(pre.value_map[last.key].value)
               /\ idx \in DOMAIN pre.clock_list
               /\ clockmap.clock_list = [pre.clock_list EXCEPT ![idx].second_chance = TRUE]

\* C9: on a ClockMap of capacity 0 every insert completes without a panic and
\* stores nothing, and every read returns None.
C9_ZeroCapacity ==
    clockmap.capacity = 0 =>
        /\ status = "ok"
        /\ clockmap = ClockMap_new(0)
        /\ last.op = "insert" => last.ret = RetUnit
        /\ last.op = "read" => last.ret = RetNone

C9_Witness ==
    /\ clockmap.capacity = 0
    /\ cold_puts > 0
    /\ last.op = "read"
    /\ last.ret = RetNone

---------------------------------------------------------------------------
(* Properties of the ClockDashMap *)

InCall(t) == thread[t].pc \notin {"idle", "panicked"}

\* C10: every ClockDashMap insert and read call eventually returns: no state
\* is reachable in which a call is in progress and no call in progress can
\* take a step (a call waiting on a lock that is never released, whether held
\* by another call or by itself).
C10_NoDeadlock ==
    (\E t \in Threads : InCall(t)) => (\E u \in Threads : ENABLED DashStep(u))

(* thread t is at a lock() of the key_shard mutex while a thread holds it *)
WaitsOnKeyShard(t) ==
    /\ thread[t].pc \in {"insert_53", "read_69"}
    /\ mutex.key_shard.holder # NoThread

(* thread t is at a lock() of the next_modify mutex while a thread holds it *)
WaitsOnNextModify(t) ==
    /\ thread[t].pc \in {"insert_59", "insert_60", "insert_60_blocked"}
    /\ mutex.next_modify.holder # NoThread

\* C11: a call waits only for the lock of its target shard: no call is ever
\* held up at a lock that is not a shard's, so calls for different shards
\* never block one another.
C11_BlocksOnlyOnShardLock ==
    \A t \in Threads : ~WaitsOnKeyShard(t) /\ ~WaitsOnNextModify(t)

\* C12: the shard of a key is computed from the key alone: no call consults
\* or updates a mutable key-to-shard record (the key_shard map, guarded by its
\* mutex), and no call takes its shard index from the mutable next_modify
\* counter.
C12_NoShardDirectory ==
    \A t \in Threads :
        /\ mutex.key_shard.holder # t
        /\ mutex.next_modify.holder # t

RECURSIVE SumCapacity(_, _)
SumCapacity(shards, n) ==
    IF n = 0 THEN 0 ELSE shards[n - 1].capacity + SumCapacity(shards, n - 1)

\* C13: ClockDashMap::new(C) with N >= 1 shards creates exactly N shards, the
\* first N-1 of capacity floor(C / N) and the last of capacity
\* floor(C / N) + (C mod N), so the capacities sum to C.
C13_CapacityPartition ==
    LET N == dash.num_shards
        C == dash.cap
    IN  /\ N >= 1
        /\ DOMAIN dash.shards = 0..(N - 1)
        /\ \A i \in 0..(N - 2) : dash.shards[i].capacity = C \div N
        /\ dash.shards[N - 1].capacity = (C \div N) + (C % N)
        /\ \A i \in 0..(N - 1) :
               /\ dash.shards[i].capacity = Cardinality(DOMAIN dash.shards[i].clock_list)
               /\ DOMAIN dash.shards[i].clock_list = 0..(dash.shards[i].capacity - 1)
        /\ SumCapacity(dash.shards, N) = C

C13_Witness ==
    /\ dash.num_shards = 2
    /\ dash.cap % dash.num_shards = 1
    /\ dash.shards[0].capacity # dash.shards[1].capacity

---------------------------------------------------------------------------
(* Properties of the sweep of one ClockMap *)

\* C14: with capacity c > 0 an insert of a new key examines at most c slots,
\* one lap in circular order from pointer with no slot examined twice, and
\* then ends.
C14_SweepTermination ==
    (ColdInsert /\ pre.capacity > 0) =>
        /\ Len(last.visited) >= 1
        /\ Len(last.visited) <= pre.capacity
        /\ \A j \in 1..Len(last.visited) :
               last.visited[j] = (pre.pointer + j - 1) % pre.capacity
        /\ \A j, k \in 1..Len(last.visited) :
               j # k => last.visited[j] # last.visited[k]

C14_Witness ==
    /\ ColdInsert
    /\ pre.capacity >= 2
    /\ Len(last.visited) = pre.capacity

\* C15: with capacity > 0 the pointer is in [0, capacity) after every
\* completed insert or read.
C15_HandRange ==
    clockmap.capacity > 0 => clockmap.pointer \in 0..(clockmap.capacity - 1)

C15_Witness ==
    /\ ColdInsert
    /\ status = "ok"
    /\ pre.capacity >= 2
    /\ last.visited # <<>>
    /\ last.visited[Len(last.visited)] = pre.capacity - 1
    /\ clockmap.miss = pre.miss + 1
    /\ clockmap.pointer = 0

Full(m) == \A i \in DOMAIN m.clock_list : m.clock_list[i].some

(* the position examined j steps after the pointer of m *)
PosAt(m, j) == (m.pointer + j) % m.capacity

(* the first step, in circular order from the pointer, at a slot whose flag is false *)
VictimStep(m) ==
    CHOOSE j \in 0..(m.capacity - 1) :
        /\ ~m.clock_list[PosAt(m, j)].second_chance
        /\ \A j2 \in 0..(j - 1) : m.clock_list[PosAt(m, j2)].second_chance

EvictingInsert ==
    /\ ColdInsert
    /\ pre.capacity > 0
    /\ Full(pre)
    /\ \E i \in DOMAIN pre.clock_list : ~pre.clock_list[i].second_chance

\* C16: an insert of a new key into a full ClockMap with some flag false
\* evicts the key of the first slot, in circular order from pointer, whose
\* flag is false: exactly that key leaves value_map, every slot passed over
\* before it has its flag cleared, the new key is in the victim's slot with
\* flag false, the slots after the victim are unchanged, and pointer is
\* (victim position + 1) mod capacity.
C16_VictimSelection ==
    EvictingInsert =>
        LET jv == VictimStep(pre)
            vpos == PosAt(pre, jv)
            vkey == pre.clock_list[vpos].key
        IN  /\ last.ret = RetUnit
            /\ DOMAIN clockmap.value_map = ((DOMAIN pre.value_map) \ {vkey}) \cup {last.key}
            /\ vkey \in DOMAIN pre.value_map
            /\ \A j \in 0..(jv - 1) :
                   clockmap.clock_list[PosAt(pre, j)] =
                       Entry(FALSE, pre.clock_list[PosAt(pre, j)].key)
            /\ clockmap.clock_list[vpos] = Entry(FALSE, last.key)
            /\ \A j \in (jv + 1)..(pre.capacity - 1) :
                   clockmap.clock_list[PosAt(pre, j)] = pre.clock_list[PosAt(pre, j)]
            /\ clockmap.pointer = (vpos + 1) % pre.capacity

C16_Witness ==
    /\ EvictingInsert
    /\ VictimStep(pre) >= 1
    /\ pre.clock_list[PosAt(pre, VictimStep(pre))].key \notin DOMAIN clockmap.value_map

(* the keys of the slots of m whose second_chance flag is set *)
FlaggedKeys(m) ==
    {m.clock_list[i].key : i \in {j \in DOMAIN m.clock_list :
                                      m.clock_list[j].some /\ m.clock_list[j].second_chance}}

\* C17: a key whose slot has second_chance = true when an insert of a new key
\* begins is not evicted by that insert: it is still in value_map with its
\* value unchanged when the insert ends, so the insert evicts only a key
\* whose flag was false.
C17_SecondChance ==
    ColdInsert =>
        /\ \A k \in FlaggedKeys(pre) :
               /\ k \in DOMAIN pre.value_map
               /\ k \in DOMAIN clockmap.value_map
               /\ clockmap.value_map[k].value = pre.value_map[k].value
        /\ \A k \in (DOMAIN pre.value_map) \ (DOMAIN clockmap.value_map) :
               k \notin FlaggedKeys(pre)

C17_Witness ==
    /\ EvictingInsert
    /\ FlaggedKeys(pre) # {}
    /\ (DOMAIN pre.value_map) \ (DOMAIN clockmap.value_map) # {}
    /\ pre.clock_list[pre.pointer].second_chance

Occupied(m) == {i \in DOMAIN m.clock_list : m.clock_list[i].some}

\* C18: the number of keys in value_map never exceeds capacity, every
\* occupied slot holds a key that is in value_map, no two slots hold the same
\* key, and there are as many occupied slots as keys in value_map.
C18_BoundedOccupancy ==
    /\ Cardinality(DOMAIN clockmap.value_map) <= clockmap.capacity
    /\ DOMAIN clockmap.clock_list = 0..(clockmap.capacity - 1)
    /\ \A i \in Occupied(clockmap) : clockmap.clock_list[i].key \in DOMAIN clockmap.value_map
    /\ \A i, j \in Occupied(clockmap) :
           i # j => clockmap.clock_list[i].key # clockmap.clock_list[j].key
    /\ Cardinality(Occupied(clockmap)) = Cardinality(DOMAIN clockmap.value_map)

C18_Witness ==
    /\ EvictingInsert
    /\ clockmap.capacity >= 2
    /\ Cardinality(DOMAIN clockmap.value_map) = clockmap.capacity
    /\ clockmap.miss > clockmap.capacity + 1

\* C19: the occupied slots are a prefix 0..n-1 of clock_list and an occupied
\* slot never becomes empty again; while a slot is empty pointer = n, the
\* first empty slot, so an insert of a new key then examines only slot
\* pointer < capacity and fills it, evicting nothing and clearing no flag.
C19_FillOrder ==
    LET n == Cardinality(Occupied(clockmap)) IN
    /\ Occupied(clockmap) = 0..(n - 1)
    /\ Occupied(pre) \subseteq Occupied(clockmap)
    /\ n < clockmap.capacity => clockmap.pointer = n
    /\ (ColdInsert /\ ~Full(pre)) =>
           /\ last.ret = RetUnit
           /\ last.visited = <<pre.pointer>>
           /\ pre.pointer < pre.capacity
           /\ ~pre.clock_list[pre.pointer].some
           /\ clockmap.clock_list = [pre.clock_list EXCEPT ![pre.pointer] = Entry(FALSE, last.key)]
           /\ DOMAIN clockmap.value_map = (DOMAIN pre.value_map) \cup {last.key}
           /\ \A k \in DOMAIN pre.value_map : clockmap.value_map[k] = pre.value_map[k]

C19_Witness ==
    /\ ColdInsert
    /\ ~Full(pre)
    /\ pre.pointer >= 1
    /\ \E i \in Occupied(pre) : pre.clock_list[i].second_chance
    /\ clockmap.pointer = 0

====
